---------------------------- MODULE Spec2Model ----------------------------
(***************************************************************************)
(* Model of the bathroom-review server (src/unnamed/part_000): the         *)
(* location/review aggregation store behind POST /api/reviews and          *)
(* POST /api/vote, over a flat key-value store (Redis get/set/del).        *)
(*                                                                         *)
(* Strings are sequences of character codes (ASCII), so that trim,         *)
(* toLowerCase, slice and base64 are computed as the code computes them.   *)
(* Ratings and averages are kept in tenths (30 is 3.0).                    *)
(* Every `await redis.*` of a handler is one atomic step of the request    *)
(* that runs it; the synchronous code between two awaits belongs to the    *)
(* step of the await that follows it.                                      *)
(***************************************************************************)
EXTENDS Integers, Sequences, FiniteSets, TLC

(***************************************************************************)
(* Bounds of the model.                                                    *)
(***************************************************************************)
\* A submitReview call is accepted only while fewer than this many review
\* identifiers are linked into Location records or about to be: MaxLinked
\* where requests interleave, MaxLinkedSeq where they run one at a time.
MaxLinked == 3
MaxLinkedSeq == 3
\* A castVote call is accepted only on a review whose counters are below
\* MaxCountRacing where requests interleave and Redis calls fail, below
\* MaxCount elsewhere.
MaxCount == 3
MaxCountRacing == 1
\* The clock new Date() reads stops advancing at MaxNow.
MaxNow == 1
MaxLinkedIndex == 2
MaxLinkedList == 2
MaxLinkedOrphan == 2
MaxLinkedMalformed == 2
MaxLinkedKeys == 2
MaxLinkedFrame == 2

MaxLinkedHoles == 3

(***************************************************************************)
(* Strings.                                                                *)
(***************************************************************************)
Range(s) == {s[i] : i \in DOMAIN s}

\* String.prototype.trim removes white space at both ends.
IsSpace(c) == c \in {9, 10, 11, 12, 13, 32}

RECURSIVE TrimLeft(_)
TrimLeft(s) ==
    IF s # <<>> /\ IsSpace(Head(s)) THEN TrimLeft(Tail(s)) ELSE s

RECURSIVE TrimRight(_)
TrimRight(s) ==
    IF s # <<>> /\ IsSpace(s[Len(s)])
    THEN TrimRight(SubSeq(s, 1, Len(s) - 1))
    ELSE s

Trim(s) == TrimRight(TrimLeft(s))

\* String.prototype.toLowerCase on ASCII: 'A'..'Z' become 'a'..'z'.
LowerChar(c) == IF c >= 65 /\ c <= 90 THEN c + 32 ELSE c

ToLowerCase(s) == [i \in DOMAIN s |-> LowerChar(s[i])]

\* s.slice(-4): the last four characters, or all of a shorter string.
SliceLast4(s) == IF Len(s) <= 4 THEN s ELSE SubSeq(s, Len(s) - 3, Len(s))

\* Buffer.from(s).toString('base64'): the characters of the encoding as
\* indices into the base64 alphabet A-Z a-z 0-9 + / (0..63); 64 is '='.
B64Pad == 64

B64Group(g) ==
    LET b1 == g[1]
        b2 == IF Len(g) >= 2 THEN g[2] ELSE 0
        b3 == IF Len(g) >= 3 THEN g[3] ELSE 0
        v  == b1 * 65536 + b2 * 256 + b3
    IN  << v \div 262144,
           (v \div 4096) % 64,
           IF Len(g) >= 2 THEN (v \div 64) % 64 ELSE B64Pad,
           IF Len(g) >= 3 THEN v % 64 ELSE B64Pad >>

RECURSIVE Base64(_)
Base64(bytes) ==
    IF bytes = <<>> THEN <<>>
    ELSE IF Len(bytes) <= 3 THEN B64Group(bytes)
    ELSE B64Group(SubSeq(bytes, 1, 3)) \o Base64(SubSeq(bytes, 4, Len(bytes)))

\* .replace(/[^a-zA-Z0-9]/g, ''): '+', '/' and '=' are dropped.
IsAlnumB64(x) == x < 62

StripNonAlnum(s) == SelectSeq(s, IsAlnumB64)

Underscore == 95

\* LocationKeyOf without the case-folding.
LocationKeyOfCaseSensitive(locationName, city) ==
    Trim(locationName) \o <<Underscore>> \o Trim(city)

\* `${locationName.toLowerCase().trim()}_${city.toLowerCase().trim()}`
LocationKeyOf(locationName, city) ==
    Trim(ToLowerCase(locationName)) \o <<Underscore>> \o Trim(ToLowerCase(city))

deriveLocationId(locationName, city) ==
    StripNonAlnum(Base64(LocationKeyOf(locationName, city)))

(***************************************************************************)
(* Inputs: the request bodies, users and generated ids the model draws     *)
(* from.  "Joe", " joe " and "JOE" name one location; "Moe" another.       *)
(***************************************************************************)
sJoe    == <<74, 111, 101>>
sJoePad == <<32, 106, 111, 101, 32>>
sMoe    == <<77, 111, 101>>
sEly    == <<69, 108, 121>>
sELY    == <<69, 76, 89>>
sOk     == <<111, 107>>
sBlank  == <<32>>
sEmpty  == <<>>

\* context.userId of the platform, or "" when the platform gives none.
sUser1  == <<117, 49>>
sUser2  == <<117, 50>>
UserIds == {sUser1, sUser2}

\* Values Math.random().toString(36).substr(2, 9) can return.  Nothing in
\* the code makes two calls return different values.
sR1 == <<114, 49>>
sR2 == <<114, 50>>
sR3 == <<114, 51>>
GeneratedIds == {sR1, sR2}

sAnonymous == <<97, 110, 111, 110, 121, 109, 111, 117, 115, 95>>
sUserPrefix == <<85, 115, 101, 114>>

Body(name, city, rating, comment) ==
    [locationName |-> name, address |-> sEmpty, city |-> city,
     rating |-> rating, cleanliness |-> 30, accessibility |-> 30,
     supplies |-> 30, privacy |-> 30, comment |-> comment]

VoteTypes == {"up", "down"}
\* req.body of POST /api/vote; "sideways" is a vote type the handler rejects.
VoteBodies(reviewIds) ==
    [reviewId : reviewIds, voteType : VoteTypes]
    \cup {[reviewId |-> sR1, voteType |-> "sideways"]}

\* A request: context.userId ("" when the platform gives none) and req.body.
Requests(users, bodies) == [user : users, body : bodies]

Procs == {"p1", "p2"}

(***************************************************************************)
(* State.                                                                  *)
(***************************************************************************)
VARIABLES
    locationStore,  \* bathroom:location:<id> -> the Location stored there
    reviewStore,    \* bathroom:review:<id>   -> the Review stored there
    listStore,      \* bathroom:locations:list: absent, or a JSON array
    voteStore,      \* bathroom:vote:<user>:<review> -> "up" or "down"
    pc,             \* per request slot: idle, or the Redis call it awaits
    ctx,            \* per request slot: the handler's local variables
    resp,           \* per request slot: the response just sent
    now,            \* the clock new Date() reads
    hist            \* history kept for the properties; no handler reads it

vars == <<locationStore, reviewStore, listStore, voteStore, pc, ctx, resp,
          now, hist>>
stores == <<locationStore, reviewStore, listStore, voteStore>>

IdleCtx == [op |-> "none"]
NoResp == [status |-> 0]

NoHist == [kind |-> "none"]

\* No request is running.
Idle ==
    /\ pc = [p \in Procs |-> "idle"]
    /\ ctx = [p \in Procs |-> IdleCtx]
    /\ resp = [p \in Procs |-> NoResp]
    /\ now = 0

\* The empty store.
Init ==
    /\ locationStore = <<>>
    /\ reviewStore = <<>>
    /\ listStore = [kind |-> "absent"]
    /\ voteStore = <<>>
    /\ Idle
    /\ hist = NoHist

(***************************************************************************)
(* The key-value store: get, set, del on each family of keys.              *)
(***************************************************************************)
Has(store, key) == key \in DOMAIN store
Put(store, key, value) == (key :> value) @@ store
Del(store, key) == [k \in DOMAIN store \ {key} |-> store[k]]

Colon == 58
getUserVoteKey(userId, reviewId) == userId \o <<Colon>> \o reviewId

\* JSON.parse of the stored list; [] when the key is absent and when the
\* text does not parse (lines 95-102, 253-259).
ParsedList == IF listStore.kind = "json" THEN listStore.ids ELSE <<>>

(***************************************************************************)
(* Arithmetic of the average: Number((total / n).toFixed(1)), in tenths.   *)
(* toFixed rounds to the nearest tenth and, of two equally near, up.       *)
(***************************************************************************)
RECURSIVE SumSeq(_)
SumSeq(s) == IF s = <<>> THEN 0 ELSE Head(s) + SumSeq(Tail(s))

ToFixed1(total, n) == (2 * total + n) \div (2 * n)

(***************************************************************************)
(* Bounds on what a started call may make grow.                            *)
(***************************************************************************)
RECURSIVE SumOver(_, _)
SumOver(f, S) ==
    IF S = {} THEN 0
    ELSE LET x == CHOOSE y \in S : TRUE IN f[x] + SumOver(f, S \ {x})

Linked ==
    SumOver([l \in DOMAIN locationStore |-> Len(locationStore[l].reviews)],
            DOMAIN locationStore)
InFlightSubmits == Cardinality({p \in Procs : ctx[p].op = "submit"})
MaySubmit(maxLinked) == Linked + InFlightSubmits < maxLinked

\* The vote a user has recorded on a review in a vote store, "none" for none.
RecordOf(votes, userId, reviewId) ==
    IF Has(votes, getUserVoteKey(userId, reviewId))
    THEN votes[getUserVoteKey(userId, reviewId)] ELSE "none"

MayVote(maxCount, reviewId) ==
    Has(reviewStore, reviewId) =>
        /\ reviewStore[reviewId].upvotes < maxCount
        /\ reviewStore[reviewId].downvotes < maxCount

(***************************************************************************)
(* POST /api/reviews                                                       *)
(***************************************************************************)
\* context.userId || 'anonymous_' + generateId()
RequestUserId(contextUserId, generated) ==
    IF contextUserId # sEmpty THEN contextUserId ELSE sAnonymous \o generated

\* !locationName || !city || !comment
MissingRequired(body) ==
    body.locationName = sEmpty \/ body.city = sEmpty \/ body.comment = sEmpty

\* ratings.some(r => !r || r < 1 || r > 5)
BadRating(r) == r = 0 \/ r < 10 \/ r > 50

InvalidRatings(body) ==
    \E r \in {body.rating, body.cleanliness, body.accessibility,
              body.supplies, body.privacy} : BadRating(r)

\* SubmitReviewRejected that validates after registering the location.
SubmitReviewRejectedLate(p, body) ==
    /\ pc[p] = "idle"
    /\ MissingRequired(body) \/ InvalidRatings(body)
    /\ listStore' = [kind |-> "json",
                     ids |-> <<deriveLocationId(body.locationName, body.city)>>]
    /\ resp' = [resp EXCEPT ![p] = [status |-> 400]]
    /\ pc' = [pc EXCEPT ![p] = "done"]
    /\ UNCHANGED <<locationStore, reviewStore, voteStore, ctx, now, hist>>

\* Lines 182-221, a rejected request: 400 and nothing else.
SubmitReviewRejected(p, body) ==
    /\ pc[p] = "idle"
    /\ MissingRequired(body) \/ InvalidRatings(body)
    /\ resp' = [resp EXCEPT ![p] = [status |-> 400]]
    /\ pc' = [pc EXCEPT ![p] = "done"]
    /\ UNCHANGED <<stores, ctx, now, hist>>

\* Lines 182-230, an accepted request up to its first Redis call.
SubmitReviewAccepted(p, contextUserId, generated, body) ==
    /\ pc[p] = "idle"
    /\ ~MissingRequired(body) /\ ~InvalidRatings(body)
    /\ ctx' = [ctx EXCEPT ![p] =
                 [op |-> "submit",
                  userId |-> RequestUserId(contextUserId, generated),
                  body |-> body,
                  locationId |-> deriveLocationId(body.locationName, body.city)]]
    /\ pc' = [pc EXCEPT ![p] = "sr_getLocation"]
    /\ UNCHANGED <<stores, resp, now, hist>>

NewLocation(locationId, body) ==
    [id |-> locationId, name |-> Trim(body.locationName),
     address |-> Trim(body.address), city |-> Trim(body.city),
     averageRating |-> 0, totalReviews |-> 0, reviews |-> <<>>]

\* SrGetLocation that saves the new Location record as soon as it is made.
SrGetLocationPersists(p) ==
    /\ pc[p] = "sr_getLocation"
    /\ LET id == ctx[p].locationId
           found == Has(locationStore, id)
           location == IF found THEN locationStore[id]
                       ELSE NewLocation(id, ctx[p].body)
       IN  /\ ctx' = [ctx EXCEPT ![p] =
                        [op |-> "submit", userId |-> ctx[p].userId,
                         body |-> ctx[p].body, locationId |-> id,
                         location |-> location]]
           /\ locationStore' = Put(locationStore, id, location)
           /\ pc' = [pc EXCEPT ![p] =
                       IF found THEN "sr_setReview" ELSE "sr_getList"]
    /\ UNCHANGED <<reviewStore, listStore, voteStore, resp, now, hist>>

\* SrGetLocation that goes on to the index also when the record is found.
SrGetLocationRechecksIndex(p) ==
    /\ pc[p] = "sr_getLocation"
    /\ LET id == ctx[p].locationId
           location == IF Has(locationStore, id) THEN locationStore[id]
                       ELSE NewLocation(id, ctx[p].body)
       IN  /\ ctx' = [ctx EXCEPT ![p] =
                        [op |-> "submit", userId |-> ctx[p].userId,
                         body |-> ctx[p].body, locationId |-> id,
                         location |-> location]]
           /\ pc' = [pc EXCEPT ![p] = "sr_getList"]
    /\ UNCHANGED <<stores, resp, now, hist>>

\* SrGetLocation that takes name, address and city of a record it finds
\* from the request.
SrGetLocationRenames(p) ==
    /\ pc[p] = "sr_getLocation"
    /\ LET id == ctx[p].locationId
           found == Has(locationStore, id)
           location == IF found
                       THEN [locationStore[id] EXCEPT
                                !.name = Trim(ctx[p].body.locationName),
                                !.address = Trim(ctx[p].body.address),
                                !.city = Trim(ctx[p].body.city)]
                       ELSE NewLocation(id, ctx[p].body)
       IN  /\ ctx' = [ctx EXCEPT ![p] =
                        [op |-> "submit", userId |-> ctx[p].userId,
                         body |-> ctx[p].body, locationId |-> id,
                         location |-> location]]
           /\ pc' = [pc EXCEPT ![p] =
                       IF found THEN "sr_setReview" ELSE "sr_getList"]
    /\ UNCHANGED <<stores, resp, now, hist>>

\* Lines 230-247: redis.get of the location; the record found, or a new one.
SrGetLocation(p) ==
    /\ pc[p] = "sr_getLocation"
    /\ LET id == ctx[p].locationId
           found == Has(locationStore, id)
           location == IF found THEN locationStore[id]
                       ELSE NewLocation(id, ctx[p].body)
       IN  /\ ctx' = [ctx EXCEPT ![p] =
                        [op |-> "submit", userId |-> ctx[p].userId,
                         body |-> ctx[p].body, locationId |-> id,
                         location |-> location]]
           /\ pc' = [pc EXCEPT ![p] =
                       IF found THEN "sr_setReview" ELSE "sr_getList"]
    /\ UNCHANGED <<stores, resp, now, hist>>

\* SrGetList without the includes test: the id is always put in front.
SrGetListAlwaysPrepends(p) ==
    /\ pc[p] = "sr_getList"
    /\ ctx' = [ctx EXCEPT ![p] =
                 [op |-> "submit", userId |-> ctx[p].userId,
                  body |-> ctx[p].body, locationId |-> ctx[p].locationId,
                  location |-> ctx[p].location,
                  locationIds |-> <<ctx[p].locationId>> \o ParsedList]]
    /\ pc' = [pc EXCEPT ![p] = "sr_setList"]
    /\ UNCHANGED <<stores, resp, now, hist>>

\* Lines 250-262: redis.get of the list; the id is put in front if missing.
SrGetList(p) ==
    /\ pc[p] = "sr_getList"
    /\ LET id == ctx[p].locationId
           locationIds == ParsedList
           included == id \in Range(locationIds)
       IN  /\ ctx' = [ctx EXCEPT ![p] =
                        [op |-> "submit", userId |-> ctx[p].userId,
                         body |-> ctx[p].body, locationId |-> id,
                         location |-> ctx[p].location,
                         locationIds |-> IF included THEN locationIds
                                         ELSE <<id>> \o locationIds]]
           /\ pc' = [pc EXCEPT ![p] =
                       IF included THEN "sr_setReview" ELSE "sr_setList"]
    /\ UNCHANGED <<stores, resp, now, hist>>

\* Line 263: redis.set of the list.
SrSetList(p) ==
    /\ pc[p] = "sr_setList"
    /\ listStore' = [kind |-> "json", ids |-> ctx[p].locationIds]
    /\ pc' = [pc EXCEPT ![p] = "sr_setReview"]
    /\ UNCHANGED <<locationStore, reviewStore, voteStore, ctx, resp, now, hist>>

NewReview(reviewId, userId, body, createdAt) ==
    [id |-> reviewId, locationName |-> Trim(body.locationName),
     address |-> Trim(body.address), city |-> Trim(body.city),
     rating |-> body.rating, cleanliness |-> body.cleanliness,
     accessibility |-> body.accessibility, supplies |-> body.supplies,
     privacy |-> body.privacy, comment |-> Trim(body.comment),
     userId |-> userId, username |-> sUserPrefix \o SliceLast4(userId),
     createdAt |-> createdAt, upvotes |-> 0, downvotes |-> 0]

\* LinkReview without the update of totalReviews.
LinkReviewUncounted(location, reviewId) ==
    [location EXCEPT !.reviews = <<reviewId>> \o location.reviews]

\* LinkReview that puts the new identifier at the end (push for unshift).
LinkReviewAppended(location, reviewId) ==
    [location EXCEPT !.reviews = Append(location.reviews, reviewId),
                     !.totalReviews = Len(location.reviews) + 1]

\* location.reviews.unshift(reviewId); totalReviews = reviews.length
LinkReview(location, reviewId) ==
    [location EXCEPT !.reviews = <<reviewId>> \o location.reviews,
                     !.totalReviews = Len(location.reviews) + 1]

\* SrSetReview that links the review in memory without saving it.
SrSetReviewLinksOnly(p, reviewId, createdAt) ==
    /\ pc[p] = "sr_setReview"
    /\ LET review == NewReview(reviewId, ctx[p].userId, ctx[p].body, createdAt)
       IN  ctx' = [ctx EXCEPT ![p] =
                     [op |-> "submit", locationId |-> ctx[p].locationId,
                      location |-> LinkReview(ctx[p].location, reviewId),
                      review |-> review, i |-> 1, allReviews |-> <<>>]]
    /\ now' = createdAt
    /\ pc' = [pc EXCEPT ![p] = "sr_getReview"]
    /\ UNCHANGED <<stores, resp, hist>>

\* Lines 268-296: the review is built and saved, then linked in memory.
SrSetReview(p, reviewId, createdAt) ==
    /\ pc[p] = "sr_setReview"
    /\ LET review == NewReview(reviewId, ctx[p].userId, ctx[p].body, createdAt)
       IN  /\ reviewStore' = Put(reviewStore, reviewId, review)
           /\ ctx' = [ctx EXCEPT ![p] =
                        [op |-> "submit", locationId |-> ctx[p].locationId,
                         location |-> LinkReview(ctx[p].location, reviewId),
                         review |-> review, i |-> 1, allReviews |-> <<>>]]
    /\ now' = createdAt
    /\ pc' = [pc EXCEPT ![p] = "sr_getReview"]
    /\ UNCHANGED <<locationStore, listStore, voteStore, resp, hist>>

\* The loop of lines 300-309 after the get of reviews[i] gave `ratings`.
RecalcAdvance(p, ratings) ==
    /\ ctx' = [ctx EXCEPT ![p].allReviews = ratings, ![p].i = ctx[p].i + 1]
    /\ pc' = [pc EXCEPT ![p] =
                IF ctx[p].i + 1 > Len(ctx[p].location.reviews)
                THEN "sr_setLocation" ELSE "sr_getReview"]

\* Lines 300-305: redis.get of one review of the location.
SrGetReview(p) ==
    /\ pc[p] = "sr_getReview"
    /\ LET rId == ctx[p].location.reviews[ctx[p].i]
       IN  RecalcAdvance(p, IF Has(reviewStore, rId)
                            THEN Append(ctx[p].allReviews, reviewStore[rId].rating)
                            ELSE ctx[p].allReviews)
    /\ UNCHANGED <<stores, resp, now, hist>>

\* Lines 311-314: the average is replaced only when a review was found.
Recalculated(location, allReviews) ==
    IF Len(allReviews) > 0
    THEN [location EXCEPT !.averageRating =
                              ToFixed1(SumSeq(allReviews), Len(allReviews))]
    ELSE location

\* SrSetLocation that writes the record only when none is stored.
SrSetLocationIfAbsent(p) ==
    /\ pc[p] = "sr_setLocation"
    /\ locationStore' =
          IF Has(locationStore, ctx[p].locationId) THEN locationStore
          ELSE Put(locationStore, ctx[p].locationId,
                   Recalculated(ctx[p].location, ctx[p].allReviews))
    /\ resp' = [resp EXCEPT ![p] = [status |-> 200, review |-> ctx[p].review.id]]
    /\ pc' = [pc EXCEPT ![p] = "done"]
    /\ ctx' = [ctx EXCEPT ![p] = IdleCtx]
    /\ UNCHANGED <<reviewStore, listStore, voteStore, now, hist>>

\* Lines 311-326: redis.set of the location, then the response.
SrSetLocation(p) ==
    /\ pc[p] = "sr_setLocation"
    /\ locationStore' = Put(locationStore, ctx[p].locationId,
                            Recalculated(ctx[p].location, ctx[p].allReviews))
    /\ resp' = [resp EXCEPT ![p] = [status |-> 200, review |-> ctx[p].review.id]]
    /\ pc' = [pc EXCEPT ![p] = "done"]
    /\ ctx' = [ctx EXCEPT ![p] = IdleCtx]
    /\ UNCHANGED <<reviewStore, listStore, voteStore, now, hist>>

(***************************************************************************)
(* POST /api/vote                                                          *)
(***************************************************************************)
\* !reviewId || !voteType || !['up', 'down'].includes(voteType)
InvalidVote(body) ==
    body.reviewId = sEmpty \/ body.voteType \notin {"up", "down"}

\* Lines 338-364, a rejected request: 400 and nothing else.
CastVoteRejected(p, body) ==
    /\ pc[p] = "idle"
    /\ InvalidVote(body)
    /\ resp' = [resp EXCEPT ![p] = [status |-> 400]]
    /\ pc' = [pc EXCEPT ![p] = "done"]
    /\ UNCHANGED <<stores, ctx, now, hist>>

\* Lines 338-367, an accepted request up to its first Redis call.
CastVoteAccepted(p, contextUserId, generated, body, h) ==
    /\ pc[p] = "idle"
    /\ ~InvalidVote(body)
    /\ ctx' = [ctx EXCEPT ![p] =
                 [op |-> "vote",
                  userId |-> RequestUserId(contextUserId, generated),
                  reviewId |-> body.reviewId, voteType |-> body.voteType]]
    /\ pc' = [pc EXCEPT ![p] = "cv_getReview"]
    /\ hist' = h
    /\ UNCHANGED <<stores, resp, now>>

\* CvGetReviewMissing that records the vote before it looks the review up.
CvGetReviewMissingRecords(p) ==
    /\ pc[p] = "cv_getReview"
    /\ ~Has(reviewStore, ctx[p].reviewId)
    /\ voteStore' = Put(voteStore, getUserVoteKey(ctx[p].userId, ctx[p].reviewId),
                        ctx[p].voteType)
    /\ resp' = [resp EXCEPT ![p] = [status |-> 404]]
    /\ pc' = [pc EXCEPT ![p] = "done"]
    /\ ctx' = [ctx EXCEPT ![p] = IdleCtx]
    /\ UNCHANGED <<locationStore, reviewStore, listStore, now, hist>>

\* Lines 367-375: redis.get of the review; 404 when there is none.
CvGetReviewMissing(p) ==
    /\ pc[p] = "cv_getReview"
    /\ ~Has(reviewStore, ctx[p].reviewId)
    /\ resp' = [resp EXCEPT ![p] = [status |-> 404]]
    /\ pc' = [pc EXCEPT ![p] = "done"]
    /\ ctx' = [ctx EXCEPT ![p] = IdleCtx]
    /\ UNCHANGED <<stores, now, hist>>

\* Lines 367-378: redis.get of the review, parsed into `review`.
CvGetReview(p) ==
    /\ pc[p] = "cv_getReview"
    /\ Has(reviewStore, ctx[p].reviewId)
    /\ ctx' = [ctx EXCEPT ![p] =
                 [op |-> "vote", userId |-> ctx[p].userId,
                  reviewId |-> ctx[p].reviewId, voteType |-> ctx[p].voteType,
                  review |-> reviewStore[ctx[p].reviewId]]]
    /\ pc' = [pc EXCEPT ![p] = "cv_getVote"]
    /\ UNCHANGED <<stores, resp, now, hist>>

\* Max0 without the floor.
Max0Unfloored(n) == n

Max0(n) == IF n > 0 THEN n ELSE 0

\* RemoveOldVote taking the old vote off the other counter.
RemoveOldVoteCrossed(review, existingVote) ==
    IF existingVote = "none" THEN review
    ELSE IF existingVote = "up"
         THEN [review EXCEPT !.downvotes = Max0(review.downvotes - 1)]
         ELSE [review EXCEPT !.upvotes = Max0(review.upvotes - 1)]

\* Lines 385-392: the old vote is taken off its counter, not below 0.
RemoveOldVote(review, existingVote) ==
    IF existingVote = "none" THEN review
    ELSE IF existingVote = "up"
         THEN [review EXCEPT !.upvotes = Max0(review.upvotes - 1)]
         ELSE [review EXCEPT !.downvotes = Max0(review.downvotes - 1)]

\* AddNewVote counting the vote also when it repeats the old one.
AddNewVoteAlways(review, existingVote, voteType) ==
    IF voteType = "up"
    THEN [review EXCEPT !.upvotes = review.upvotes + 1]
    ELSE [review EXCEPT !.downvotes = review.downvotes + 1]

\* Lines 395-400: a vote that differs from the old one is counted.
AddNewVote(review, existingVote, voteType) ==
    IF existingVote = "none" \/ existingVote # voteType
    THEN IF voteType = "up"
         THEN [review EXCEPT !.upvotes = review.upvotes + 1]
         ELSE [review EXCEPT !.downvotes = review.downvotes + 1]
    ELSE review

ApplyVote(review, existingVote, voteType) ==
    AddNewVote(RemoveOldVote(review, existingVote), existingVote, voteType)

\* Lines 381-400: redis.get of the user's vote ("none" when there is none),
\* then the counters of the in-memory review are updated.
CvGetVote(p, h) ==
    /\ pc[p] = "cv_getVote"
    /\ LET key == getUserVoteKey(ctx[p].userId, ctx[p].reviewId)
           existingVote == IF Has(voteStore, key) THEN voteStore[key] ELSE "none"
       IN  /\ ctx' = [ctx EXCEPT ![p] =
                        [op |-> "vote", userId |-> ctx[p].userId,
                         reviewId |-> ctx[p].reviewId,
                         voteType |-> ctx[p].voteType,
                         existingVote |-> existingVote,
                         review |-> ApplyVote(ctx[p].review, existingVote,
                                              ctx[p].voteType)]]
           /\ pc' = [pc EXCEPT ![p] =
                       IF existingVote = "none" \/ existingVote # ctx[p].voteType
                       THEN "cv_setVote" ELSE "cv_delVote"]
    /\ hist' = h
    /\ UNCHANGED <<stores, resp, now>>

\* Line 401: redis.set of the vote record.
CvSetVote(p) ==
    /\ pc[p] = "cv_setVote"
    /\ voteStore' = Put(voteStore, getUserVoteKey(ctx[p].userId, ctx[p].reviewId),
                        ctx[p].voteType)
    /\ pc' = [pc EXCEPT ![p] = "cv_setReview"]
    /\ UNCHANGED <<locationStore, reviewStore, listStore, ctx, resp, now, hist>>

\* CvDelVote that leaves the vote record in place.
CvDelVoteKeeps(p) ==
    /\ pc[p] = "cv_delVote"
    /\ pc' = [pc EXCEPT ![p] = "cv_setReview"]
    /\ UNCHANGED <<stores, ctx, resp, now, hist>>

\* Line 405: redis.del of the vote record.
CvDelVote(p) ==
    /\ pc[p] = "cv_delVote"
    /\ voteStore' = Del(voteStore, getUserVoteKey(ctx[p].userId, ctx[p].reviewId))
    /\ pc' = [pc EXCEPT ![p] = "cv_setReview"]
    /\ UNCHANGED <<locationStore, reviewStore, listStore, ctx, resp, now, hist>>

\* CvSetReview that also lets the votes of the review into its location's
\* rating.
CvSetReviewRates(p, h) ==
    /\ pc[p] = "cv_setReview"
    /\ reviewStore' = Put(reviewStore, ctx[p].reviewId, ctx[p].review)
    /\ locationStore' =
          [l \in DOMAIN locationStore |->
              IF ctx[p].reviewId \in Range(locationStore[l].reviews)
              THEN [locationStore[l] EXCEPT
                       !.averageRating = 10 + 10 * ctx[p].review.upvotes]
              ELSE locationStore[l]]
    /\ resp' = [resp EXCEPT ![p] =
                  [status |-> 200, upvotes |-> ctx[p].review.upvotes,
                   downvotes |-> ctx[p].review.downvotes]]
    /\ pc' = [pc EXCEPT ![p] = "done"]
    /\ ctx' = [ctx EXCEPT ![p] = IdleCtx]
    /\ hist' = h
    /\ UNCHANGED <<listStore, voteStore, now>>

\* Lines 410-417: redis.set of the review, then the response.
CvSetReview(p, h) ==
    /\ pc[p] = "cv_setReview"
    /\ reviewStore' = Put(reviewStore, ctx[p].reviewId, ctx[p].review)
    /\ resp' = [resp EXCEPT ![p] =
                  [status |-> 200, upvotes |-> ctx[p].review.upvotes,
                   downvotes |-> ctx[p].review.downvotes]]
    /\ pc' = [pc EXCEPT ![p] = "done"]
    /\ ctx' = [ctx EXCEPT ![p] = IdleCtx]
    /\ hist' = h
    /\ UNCHANGED <<locationStore, listStore, voteStore, now>>

(***************************************************************************)
(* GET /api/locations                                                      *)
(***************************************************************************)
\* Array.prototype.sort is stable: an element goes behind those that compare
\* equal to it.  Line 165: (a, b) => a.averageRating - b.averageRating
RECURSIVE InsertLocation(_, _)
InsertLocation(sorted, x) ==
    IF sorted = <<>> THEN <<x>>
    ELSE IF x.averageRating < Head(sorted).averageRating THEN <<x>> \o sorted
    ELSE <<Head(sorted)>> \o InsertLocation(Tail(sorted), x)

\* SortLocations that leaves the locations in the order of the index.
SortLocationsUnsorted(locations) == locations

RECURSIVE SortLocations(_)
SortLocations(locations) ==
    IF locations = <<>> THEN <<>>
    ELSE InsertLocation(SortLocations(SubSeq(locations, 1, Len(locations) - 1)),
                        locations[Len(locations)])

\* Line 148: (a, b) => new Date(b.createdAt).getTime()
\*                     - new Date(a.createdAt).getTime()
\* createdAt is the output of toISOString, which Date parses back to the
\* same millisecond.
RECURSIVE InsertReview(_, _)
InsertReview(sorted, x) ==
    IF sorted = <<>> THEN <<x>>
    ELSE IF x.createdAt > Head(sorted).createdAt THEN <<x>> \o sorted
    ELSE <<Head(sorted)>> \o InsertReview(Tail(sorted), x)

RECURSIVE SortReviews(_)
SortReviews(reviews) ==
    IF reviews = <<>> THEN <<>>
    ELSE InsertReview(SortReviews(SubSeq(reviews, 1, Len(reviews) - 1)),
                      reviews[Len(reviews)])

\* Line 83: the handler starts; it reads nothing from the request.
ListLocationsStarts(p) ==
    /\ pc[p] = "idle"
    /\ ctx' = [ctx EXCEPT ![p] = [op |-> "list"]]
    /\ pc' = [pc EXCEPT ![p] = "ll_getList"]
    /\ UNCHANGED <<stores, resp, now, hist>>

\* LlGetList that answers 500 when the stored list does not parse.
LlGetListStrict(p) ==
    /\ pc[p] = "ll_getList"
    /\ IF listStore.kind = "malformed"
       THEN /\ resp' = [resp EXCEPT ![p] = [status |-> 500]]
            /\ pc' = [pc EXCEPT ![p] = "done"]
            /\ ctx' = [ctx EXCEPT ![p] = IdleCtx]
       ELSE IF ParsedList = <<>>
       THEN /\ resp' = [resp EXCEPT ![p] = [status |-> 200, locations |-> <<>>]]
            /\ pc' = [pc EXCEPT ![p] = "done"]
            /\ ctx' = [ctx EXCEPT ![p] = IdleCtx]
       ELSE /\ ctx' = [ctx EXCEPT ![p] =
                         [op |-> "list", locationIds |-> ParsedList, i |-> 1,
                          locations |-> <<>>]]
            /\ pc' = [pc EXCEPT ![p] = "ll_getLocation"]
            /\ resp' = resp
    /\ UNCHANGED <<stores, now, hist>>

\* Lines 92-116: redis.get of the list; an empty list is answered at once.
LlGetList(p) ==
    /\ pc[p] = "ll_getList"
    /\ IF ParsedList = <<>>
       THEN /\ resp' = [resp EXCEPT ![p] = [status |-> 200, locations |-> <<>>]]
            /\ pc' = [pc EXCEPT ![p] = "done"]
            /\ ctx' = [ctx EXCEPT ![p] = IdleCtx]
       ELSE /\ ctx' = [ctx EXCEPT ![p] =
                         [op |-> "list", locationIds |-> ParsedList, i |-> 1,
                          locations |-> <<>>]]
            /\ pc' = [pc EXCEPT ![p] = "ll_getLocation"]
            /\ resp' = resp
    /\ UNCHANGED <<stores, now, hist>>

\* Lines 119 and 162-170: the next identifier of the list, or, after the
\* last one, the sort of the locations and the response.
NextLocation(p, locations) ==
    IF ctx[p].i = Len(ctx[p].locationIds)
    THEN /\ resp' = [resp EXCEPT ![p] =
                       [status |-> 200, locations |-> SortLocations(locations)]]
         /\ pc' = [pc EXCEPT ![p] = "done"]
         /\ ctx' = [ctx EXCEPT ![p] = IdleCtx]
    ELSE /\ ctx' = [ctx EXCEPT ![p] =
                      [op |-> "list", locationIds |-> ctx[p].locationIds,
                       i |-> ctx[p].i + 1, locations |-> locations]]
         /\ pc' = [pc EXCEPT ![p] = "ll_getLocation"]
         /\ resp' = resp

\* Lines 147-153: the reviews are sorted and the location is pushed.
WithReviews(location, reviews) ==
    [location EXCEPT !.reviews = SortReviews(reviews)]

\* LlGetLocation that gives the whole request up on an absent record.
LlGetLocationStrict(p) ==
    /\ pc[p] = "ll_getLocation"
    /\ LET locationId == ctx[p].locationIds[ctx[p].i]
       IN  IF ~Has(locationStore, locationId)
           THEN /\ resp' = [resp EXCEPT ![p] = [status |-> 500]]
                /\ pc' = [pc EXCEPT ![p] = "done"]
                /\ ctx' = [ctx EXCEPT ![p] = IdleCtx]
           ELSE IF locationStore[locationId].reviews = <<>>
           THEN NextLocation(p, Append(ctx[p].locations,
                                       WithReviews(locationStore[locationId], <<>>)))
           ELSE /\ ctx' = [ctx EXCEPT ![p] =
                             [op |-> "list", locationIds |-> ctx[p].locationIds,
                              i |-> ctx[p].i, locations |-> ctx[p].locations,
                              location |-> locationStore[locationId],
                              j |-> 1, reviews |-> <<>>]]
                /\ pc' = [pc EXCEPT ![p] = "ll_getReview"]
                /\ resp' = resp
    /\ UNCHANGED <<stores, now, hist>>

\* Lines 122-132 and 154-156: redis.get of one location of the list.
LlGetLocation(p) ==
    /\ pc[p] = "ll_getLocation"
    /\ LET locationId == ctx[p].locationIds[ctx[p].i]
       IN  IF ~Has(locationStore, locationId)
           THEN NextLocation(p, ctx[p].locations)
           ELSE IF locationStore[locationId].reviews = <<>>
           THEN NextLocation(p, Append(ctx[p].locations,
                                       WithReviews(locationStore[locationId], <<>>)))
           ELSE /\ ctx' = [ctx EXCEPT ![p] =
                             [op |-> "list", locationIds |-> ctx[p].locationIds,
                              i |-> ctx[p].i, locations |-> ctx[p].locations,
                              location |-> locationStore[locationId],
                              j |-> 1, reviews |-> <<>>]]
                /\ pc' = [pc EXCEPT ![p] = "ll_getReview"]
                /\ resp' = resp
    /\ UNCHANGED <<stores, now, hist>>

\* Line 132: the next review of the location, or the end of the location.
NextReview(p, reviews) ==
    IF ctx[p].j = Len(ctx[p].location.reviews)
    THEN NextLocation(p, Append(ctx[p].locations,
                                WithReviews(ctx[p].location, reviews)))
    ELSE /\ ctx' = [ctx EXCEPT ![p].j = ctx[p].j + 1, ![p].reviews = reviews]
         /\ pc' = [pc EXCEPT ![p] = "ll_getReview"]
         /\ resp' = resp

\* Lines 134-141: redis.get of one review; an absent one is skipped.
LlGetReview(p) ==
    /\ pc[p] = "ll_getReview"
    /\ LET reviewId == ctx[p].location.reviews[ctx[p].j]
       IN  NextReview(p, IF Has(reviewStore, reviewId)
                         THEN Append(ctx[p].reviews, reviewStore[reviewId])
                         ELSE ctx[p].reviews)
    /\ UNCHANGED <<stores, now, hist>>

(***************************************************************************)
(* Store failures: the awaited Redis call throws.                          *)
(***************************************************************************)
\* Lines 306-308: inside the recalculation loop the error is caught and
\* logged, and the loop goes on without that review.
SrGetReviewFails(p) ==
    /\ pc[p] = "sr_getReview"
    /\ RecalcAdvance(p, ctx[p].allReviews)
    /\ UNCHANGED <<stores, resp, now, hist>>

\* Lines 142-144: a redis.get of a review that fails while the locations
\* are listed is logged and the review is skipped.
LlGetReviewFails(p) ==
    /\ pc[p] = "ll_getReview"
    /\ NextReview(p, ctx[p].reviews)
    /\ UNCHANGED <<stores, now, hist>>

\* Lines 157-159: a redis.get of a location that fails is logged and the
\* location is skipped.
LlGetLocationFails(p) ==
    /\ pc[p] = "ll_getLocation"
    /\ NextLocation(p, ctx[p].locations)
    /\ UNCHANGED <<stores, now, hist>>

\* Lines 171-178, 327-334 and 418-425: any other failure ends the request with 500.
StoreFails(p, h) ==
    /\ pc[p] \notin {"idle", "done", "sr_getReview",
                    "ll_getLocation", "ll_getReview"}
    /\ resp' = [resp EXCEPT ![p] = [status |-> 500]]
    /\ pc' = [pc EXCEPT ![p] = "done"]
    /\ ctx' = [ctx EXCEPT ![p] = IdleCtx]
    /\ hist' = h
    /\ UNCHANGED <<stores, now>>

\* The response has been sent; the slot takes the next request.
Return(p, h) ==
    /\ pc[p] = "done"
    /\ pc' = [pc EXCEPT ![p] = "idle"]
    /\ resp' = [resp EXCEPT ![p] = NoResp]
    /\ hist' = h
    /\ UNCHANGED <<stores, ctx, now>>

(***************************************************************************)
(* Specifications.                                                         *)
(***************************************************************************)
\* What new Date() can read next: the clock does not go back.
Clock(ticks) == {now + d : d \in {e \in ticks : now + e <= MaxNow}}

\* A request arrives, drawn from the given set.
SubmitStarts(p, requests, maxLinked) ==
    \/ \E r \in requests : SubmitReviewRejected(p, r.body)
    \/ \E r \in requests, g \in GeneratedIds :
          MaySubmit(maxLinked) /\ SubmitReviewAccepted(p, r.user, g, r.body)

VoteStarts(p, requests, maxCount) ==
    \/ \E r \in requests : CastVoteRejected(p, r.body)
    \/ \E r \in requests, g \in GeneratedIds :
          MayVote(maxCount, r.body.reviewId)
          /\ CastVoteAccepted(p, r.user, g, r.body, hist)

\* The awaited Redis call of a request completes.
SubmitSteps(p, ticks) ==
    \/ SrGetLocation(p)
    \/ SrGetList(p)
    \/ SrSetList(p)
    \/ \E reviewId \in GeneratedIds, t \in Clock(ticks) :
          SrSetReview(p, reviewId, t)
    \/ SrGetReview(p)
    \/ SrSetLocation(p)

(***************************************************************************)
(* States a sequence of accepted submissions leaves: the location "Joe" in *)
(* "Ely" with the given reviews, all rated 3 by u1, most recent first.     *)
(***************************************************************************)
JoeBody == Body(sJoe, sEly, 30, sOk)
JoeId == deriveLocationId(sJoe, sEly)

RECURSIVE JoeLocation(_)
JoeLocation(reviewIds) ==
    IF reviewIds = <<>> THEN NewLocation(JoeId, JoeBody)
    ELSE Recalculated(LinkReview(JoeLocation(Tail(reviewIds)), Head(reviewIds)),
                      [i \in 1..Len(reviewIds) |-> 30])

Reviewed(reviewIds) ==
    /\ locationStore = (JoeId :> JoeLocation(reviewIds))
    /\ reviewStore = [id \in Range(reviewIds) |-> NewReview(id, sUser1, JoeBody, 0)]
    /\ listStore = [kind |-> "json", ids |-> <<JoeId>>]
    /\ voteStore = <<>>
    /\ Idle

(***************************************************************************)
(* Spec: POST /api/reviews with requests that interleave at every Redis    *)
(* call, any of which may fail.                                            *)
(***************************************************************************)
SpecRequests ==
    Requests({sUser1}, {JoeBody, Body(sJoe, sEly, 0, sOk)})

Next ==
    \E p \in Procs :
        \/ SubmitStarts(p, SpecRequests, MaxLinked)
        \/ SubmitSteps(p, {0})
        \/ Return(p, hist)
        \/ SrGetReviewFails(p)
        \/ StoreFails(p, hist)

Spec == Init /\ [][Next]_vars

(***************************************************************************)
(* SpecSeq: POST /api/reviews, one request at a time, no Redis call        *)
(* failing.                                                                *)
(***************************************************************************)
SeqRequests ==
    Requests({sUser1, sEmpty},
             {JoeBody, Body(sJoePad, sELY, 50, sOk), Body(sMoe, sEly, 10, sOk),
              Body(sEmpty, sEly, 30, sOk), Body(sJoe, sEly, 60, sOk)})

NextSeq ==
    \/ SubmitStarts("p1", SeqRequests, MaxLinkedSeq)
    \/ SubmitSteps("p1", {0, 1})
    \/ Return("p1", hist)

SpecSeq == Init /\ [][NextSeq]_vars

(***************************************************************************)
(* SpecFail: POST /api/reviews, one request at a time; a Redis call may    *)
(* fail and end the request with 500, and the caller may send it again.    *)
(***************************************************************************)
NextFail ==
    \/ SubmitStarts("p1", SpecRequests, MaxLinkedSeq)
    \/ SubmitSteps("p1", {0})
    \/ Return("p1", hist)
    \/ StoreFails("p1", hist)

SpecFail == Init /\ [][NextFail]_vars

(***************************************************************************)
(* SpecIndex: POST /api/reviews for two different locations, the requests  *)
(* interleaving at every Redis call, any of which may fail.                *)
(***************************************************************************)
MoeBody == Body(sMoe, sEly, 30, sOk)
MoeId == deriveLocationId(sMoe, sEly)

IndexRequests ==
    Requests({sUser1}, {JoeBody, MoeBody, Body(sJoe, sEly, 0, sOk)})

NextIndex ==
    \E p \in Procs :
        \/ SubmitStarts(p, IndexRequests, MaxLinkedIndex)
        \/ SubmitSteps(p, {0})
        \/ Return(p, hist)
        \/ StoreFails(p, hist)

SpecIndex == Init /\ [][NextIndex]_vars

(***************************************************************************)
(* SpecList: GET /api/locations on one slot while POST /api/reviews runs   *)
(* on the other; the requests interleave at every Redis call, any of which *)
(* may fail.                                                               *)
(***************************************************************************)
ListRequests ==
    Requests({sUser1}, {JoeBody, Body(sMoe, sEly, 10, sOk), Body(sJoe, sEly, 0, sOk)})

NextList ==
    \/ ListLocationsStarts("p1")
    \/ LlGetList("p1")
    \/ LlGetLocation("p1")
    \/ LlGetReview("p1")
    \/ LlGetLocationFails("p1")
    \/ LlGetReviewFails("p1")
    \/ SubmitStarts("p2", ListRequests, MaxLinkedList)
    \/ SubmitSteps("p2", {0, 1})
    \/ \E p \in Procs : Return(p, hist) \/ StoreFails(p, hist)

SpecList == Init /\ [][NextList]_vars

(***************************************************************************)
(* SpecHoles: one request at a time, POST /api/reviews, where a Redis call *)
(* may fail, or GET /api/locations, where none does; between requests the  *)
(* store may lose a review record.                                         *)
(***************************************************************************)
\* Lines 138-140: the record of a review is no longer in the store.
ReviewLost(reviewId) ==
    /\ pc["p1"] = "idle"
    /\ Has(reviewStore, reviewId)
    /\ reviewStore' = Del(reviewStore, reviewId)
    /\ UNCHANGED <<locationStore, listStore, voteStore, pc, ctx, resp, now, hist>>

NextHoles ==
    \/ ListLocationsStarts("p1")
    \/ LlGetList("p1")
    \/ LlGetLocation("p1")
    \/ LlGetReview("p1")
    \/ SubmitStarts("p1", IndexRequests, MaxLinkedHoles)
    \/ SubmitSteps("p1", {0})
    \/ Return("p1", hist)
    \/ /\ ctx["p1"].op = "submit"
       /\ StoreFails("p1", hist)
    \/ \E reviewId \in GeneratedIds : ReviewLost(reviewId)

SpecHoles == Init /\ [][NextHoles]_vars

(***************************************************************************)
(* SpecOrphan: POST /api/reviews for two locations on both slots and       *)
(* GET /api/locations on the first; the requests interleave at every Redis *)
(* call, and any Redis call of a submission may fail.                      *)
(***************************************************************************)
NextOrphan ==
    \/ ListLocationsStarts("p1")
    \/ LlGetList("p1")
    \/ LlGetLocation("p1")
    \/ LlGetReview("p1")
    \/ \E p \in Procs :
          \/ SubmitStarts(p, IndexRequests, MaxLinkedOrphan)
          \/ SubmitSteps(p, {0})
          \/ Return(p, hist)
          \/ /\ ctx[p].op = "submit"
             /\ StoreFails(p, hist)

SpecOrphan == Init /\ [][NextOrphan]_vars

(***************************************************************************)
(* SpecMalformed: one request at a time, POST /api/reviews or              *)
(* GET /api/locations, no Redis call failing; between requests the text    *)
(* stored under the list key may become one that JSON.parse rejects.       *)
(***************************************************************************)
\* Lines 97-101 and 255-258: the stored list is no longer valid JSON.
ListMalformed ==
    /\ pc["p1"] = "idle"
    /\ listStore.kind # "malformed"
    /\ listStore' = [kind |-> "malformed"]
    /\ UNCHANGED <<locationStore, reviewStore, voteStore, pc, ctx, resp, now, hist>>

NextMalformed ==
    \/ ListLocationsStarts("p1")
    \/ LlGetList("p1")
    \/ LlGetLocation("p1")
    \/ LlGetReview("p1")
    \/ SubmitStarts("p1", IndexRequests, MaxLinkedMalformed)
    \/ SubmitSteps("p1", {0})
    \/ Return("p1", hist)
    \/ ListMalformed

SpecMalformed == Init /\ [][NextMalformed]_vars

(***************************************************************************)
(* SpecKeys: POST /api/reviews, one request at a time, no Redis call       *)
(* failing, for the locations "a_b" in "c" and "a" in "b_c".               *)
(***************************************************************************)
sA_B == <<97, 95, 98>>
sC   == <<99>>
sA   == <<97>>
sB_C == <<98, 95, 99>>

KeysRequests ==
    Requests({sUser1}, {Body(sA_B, sC, 30, sOk), Body(sA, sB_C, 50, sOk),
                        Body(sA, sEmpty, 30, sOk)})

NextKeys ==
    \/ SubmitStarts("p1", KeysRequests, MaxLinkedKeys)
    \/ SubmitSteps("p1", {0})
    \/ Return("p1", hist)

SpecKeys == Init /\ [][NextKeys]_vars

(***************************************************************************)
(* SpecFrame: POST /api/reviews, one request at a time, no Redis call      *)
(* failing, for one location written as "Joe" in "Ely" with no address and *)
(* as " joe " in "ELY" with the address "Moe".                             *)
(***************************************************************************)
JoePadBody == [Body(sJoePad, sELY, 50, sOk) EXCEPT !.address = sMoe]

FrameRequests ==
    Requests({sUser1}, {JoeBody, JoePadBody, Body(sJoe, sEly, 0, sOk)})

NextFrame ==
    \/ SubmitStarts("p1", FrameRequests, MaxLinkedFrame)
    \/ SubmitSteps("p1", {0})
    \/ Return("p1", hist)

SpecFrame == Init /\ [][NextFrame]_vars

(***************************************************************************)
(* SpecClient: the React component BathroomLocator against the server, one *)
(* request at a time, no Redis call failing, on a store that holds one     *)
(* location with two reviews.  The user u1 opens the page, opens and       *)
(* leaves the details view and votes from it.  hist is the state of the    *)
(* component: locations, currentView, selectedLocation, the async call in  *)
(* progress, and the values of locations and selectedLocation that the     *)
(* running handleVote closed over when the view was rendered.              *)
(***************************************************************************)
NullLocation == [id |-> sEmpty]

\* locations.find(loc => loc.id === id); NullLocation for undefined.
Find(locations, id) ==
    LET hits == {i \in DOMAIN locations : locations[i].id = id}
    IN  IF hits = {} THEN NullLocation
        ELSE locations[CHOOSE i \in hits : \A j \in hits : i <= j]

\* useState initial values; useEffect is about to call loadLocations.
InitClient ==
    /\ Reviewed(<<sR2, sR1>>)
    /\ hist = [locations |-> <<>>, currentView |-> "list",
               selectedLocation |-> NullLocation, call |-> "load",
               closure |-> [locations |-> <<>>,
                            selectedLocation |-> NullLocation]]

\* loadLocations: makeApiCall('api/locations') is sent.
LoadLocationsStarts ==
    /\ hist.call \in {"load", "reload"}
    /\ ListLocationsStarts("p1")

\* The rest of handleVote after await loadLocations(): locations and
\* selectedLocation are the constants of the render the handler was made
\* in, not the state loadLocations has just set.
UpdateSelected(state) ==
    IF hist.call = "reload" /\ hist.closure.selectedLocation # NullLocation
    THEN LET updatedLocation == Find(hist.closure.locations,
                                     hist.closure.selectedLocation.id)
         IN  IF updatedLocation # NullLocation
             THEN [state EXCEPT !.selectedLocation = updatedLocation]
             ELSE state
    ELSE state

\* loadLocations gets the answer and calls setLocations; when handleVote
\* awaited it, handleVote goes on.
LoadLocationsReturns ==
    /\ pc["p1"] = "done" /\ resp["p1"].status = 200
    /\ "locations" \in DOMAIN resp["p1"]
    /\ Return("p1", UpdateSelected([hist EXCEPT
                                       !.locations = resp["p1"].locations,
                                       !.call = "idle"]))

\* onLocationClick of the list view.
OnLocationClick(i) ==
    /\ hist.call = "idle" /\ hist.currentView = "list"
    /\ i \in DOMAIN hist.locations
    /\ hist' = [hist EXCEPT !.selectedLocation = hist.locations[i],
                            !.currentView = "details"]
    /\ UNCHANGED <<stores, pc, ctx, resp, now>>

\* "Back to list" of the details view.
BackToList ==
    /\ hist.call = "idle" /\ hist.currentView = "details"
    /\ hist' = [hist EXCEPT !.currentView = "list"]
    /\ UNCHANGED <<stores, pc, ctx, resp, now>>

\* handleVote, called by a vote button of the details view: the POST is sent.
HandleVote(reviewId, voteType) ==
    /\ hist.call = "idle" /\ hist.currentView = "details"
    /\ hist.selectedLocation # NullLocation
    /\ \E review \in Range(hist.selectedLocation.reviews) : review.id = reviewId
    /\ CastVoteAccepted("p1", sUser1, sR1,
                        [reviewId |-> reviewId, voteType |-> voteType],
                        [hist EXCEPT !.call = "vote",
                                     !.closure = [locations |-> hist.locations,
                                                  selectedLocation |->
                                                      hist.selectedLocation]])

\* handleVote gets data.status === 'success' and calls loadLocations.
VoteReturns ==
    /\ pc["p1"] = "done" /\ resp["p1"].status = 200
    /\ "upvotes" \in DOMAIN resp["p1"]
    /\ Return("p1", [hist EXCEPT !.call = "reload"])

NextClient ==
    \/ LoadLocationsStarts
    \/ LlGetList("p1")
    \/ LlGetLocation("p1")
    \/ LlGetReview("p1")
    \/ LoadLocationsReturns
    \/ \E i \in DOMAIN hist.locations : OnLocationClick(i)
    \/ BackToList
    \/ \E reviewId \in {sR1, sR2}, voteType \in VoteTypes :
          HandleVote(reviewId, voteType)
    \/ CvGetReview("p1")
    \/ CvGetVote("p1", hist)
    \/ CvSetVote("p1")
    \/ CvDelVote("p1")
    \/ CvSetReview("p1", hist)
    \/ VoteReturns

SpecClient == InitClient /\ [][NextClient]_vars

(***************************************************************************)
(* SpecValidate: POST /api/reviews, one request at a time, no Redis call   *)
(* failing, with bodies at the edges of the validation: a field that is    *)
(* empty or white space only, a rating of 0, 6 or 2.5.                     *)
(***************************************************************************)
ValidateRequests ==
    Requests({sUser1},
             {JoeBody,
              Body(sBlank, sEly, 30, sOk), Body(sJoe, sEmpty, 30, sOk),
              Body(sJoe, sEly, 30, sBlank), Body(sJoe, sEly, 30, sEmpty),
              Body(sJoe, sEly, 0, sOk), Body(sJoe, sEly, 60, sOk),
              Body(sJoe, sEly, 25, sOk),
              [JoeBody EXCEPT !.cleanliness = 0],
              [JoeBody EXCEPT !.privacy = 60]})

NextValidate ==
    \/ SubmitStarts("p1", ValidateRequests, MaxLinkedSeq)
    \/ SubmitSteps("p1", {0})
    \/ Return("p1", hist)

SpecValidate == Init /\ [][NextValidate]_vars

(***************************************************************************)
(* SpecVote: POST /api/vote on a store that holds one review, by two       *)
(* users, with requests that interleave at every Redis call, any of which  *)
(* may fail.  r3 names no review.  hist keeps, for each request in         *)
(* progress, the vote record and the counters it has read.                 *)
(***************************************************************************)
VoteRequests(reviewIds) == Requests(UserIds, VoteBodies(reviewIds))

InitVote == Reviewed(<<sR1>>) /\ hist = [p \in Procs |-> NoHist]

ReadBy(p) ==
    [hist EXCEPT ![p] =
        [kind |-> "read", voteType |-> ctx[p].voteType,
         existingVote |-> RecordOf(voteStore, ctx[p].userId, ctx[p].reviewId),
         upvotes |-> ctx[p].review.upvotes,
         downvotes |-> ctx[p].review.downvotes]]

Forget(p) == [hist EXCEPT ![p] = NoHist]

NextVote ==
    \E p \in Procs :
        \/ VoteStarts(p, VoteRequests({sR1, sR3}), MaxCountRacing)
        \/ CvGetReviewMissing(p)
        \/ CvGetReview(p)
        \/ CvGetVote(p, ReadBy(p))
        \/ CvSetVote(p)
        \/ CvDelVote(p)
        \/ CvSetReview(p, hist)
        \/ Return(p, Forget(p))
        \/ StoreFails(p, Forget(p))

SpecVote == InitVote /\ [][NextVote]_vars

(***************************************************************************)
(* SpecVoteSeq: POST /api/vote on a store that holds two reviews, one      *)
(* request at a time, no Redis call failing; the users are u1 and callers  *)
(* without a user id, who vote as anonymous_<generated id>.                *)
(***************************************************************************)
InitVoteSeq == Reviewed(<<sR2, sR1>>) /\ hist = NoHist

NextVoteSeq ==
    \/ VoteStarts("p1", Requests({sUser1, sEmpty},
                                 VoteBodies({sR1, sR2, sR3})), MaxCount)
    \/ CvGetReviewMissing("p1")
    \/ CvGetReview("p1")
    \/ CvGetVote("p1", hist)
    \/ CvSetVote("p1")
    \/ CvDelVote("p1")
    \/ CvSetReview("p1", hist)
    \/ Return("p1", hist)

SpecVoteSeq == InitVoteSeq /\ [][NextVoteSeq]_vars

(***************************************************************************)
(* SpecVoteLast: POST /api/vote on a store that holds two reviews, by two  *)
(* users, one request at a time, no Redis call failing.  hist keeps, per   *)
(* review, the last castVote that completed on it: who cast what, the vote *)
(* and the counters it found, and whether it repeated the call before it   *)
(* (same user, same type) that had found no vote.                          *)
(***************************************************************************)
NoCall ==
    [userId |-> sEmpty, voteType |-> "none", existingVote |-> "none",
     upvotes |-> 0, downvotes |-> 0, repeats |-> FALSE]

InitVoteLast ==
    /\ Reviewed(<<sR2, sR1>>)
    /\ hist = [kind |-> "last", calls |-> [id \in {sR1, sR2} |-> NoCall]]

Repeats(p, call) ==
    /\ call.userId = ctx[p].userId
    /\ call.voteType = ctx[p].voteType
    /\ call.existingVote = "none"

LastCall(p) ==
    [hist EXCEPT !.calls[ctx[p].reviewId] =
        [userId |-> ctx[p].userId, voteType |-> ctx[p].voteType,
         existingVote |-> ctx[p].existingVote,
         upvotes |-> reviewStore[ctx[p].reviewId].upvotes,
         downvotes |-> reviewStore[ctx[p].reviewId].downvotes,
         repeats |-> Repeats(p, hist.calls[ctx[p].reviewId])]]

NextVoteLast ==
    \/ VoteStarts("p1", VoteRequests({sR1, sR2, sR3}), MaxCount)
    \/ CvGetReviewMissing("p1")
    \/ CvGetReview("p1")
    \/ CvGetVote("p1", hist)
    \/ CvSetVote("p1")
    \/ CvDelVote("p1")
    \/ CvSetReview("p1", LastCall("p1"))
    \/ Return("p1", hist)

SpecVoteLast == InitVoteLast /\ [][NextVoteLast]_vars

(***************************************************************************)
(* SpecVoteRetry: POST /api/vote on a store that holds one review, one     *)
(* request at a time, any Redis call may fail.  When a call fails at the   *)
(* write of the review, after its vote record was written or deleted, hist *)
(* keeps what the call would have left; it keeps it while the same call    *)
(* (user, review, type) is retried, until a retry succeeds.                *)
(***************************************************************************)
InitVoteRetry == Reviewed(<<sR1>>) /\ hist = NoHist

SameCall(userId, body) ==
    /\ hist.userId = userId
    /\ hist.reviewId = body.reviewId
    /\ hist.voteType = body.voteType

RetryOnStart(userId, body) ==
    IF hist.kind = "retrying" /\ ~SameCall(userId, body) THEN NoHist ELSE hist

RetryOnFailure(p) ==
    IF hist.kind = "none" /\ pc[p] = "cv_setReview"
    THEN [kind |-> "retrying", userId |-> ctx[p].userId,
          reviewId |-> ctx[p].reviewId, voteType |-> ctx[p].voteType,
          vote |-> RecordOf(voteStore, ctx[p].userId, ctx[p].reviewId),
          upvotes |-> ctx[p].review.upvotes,
          downvotes |-> ctx[p].review.downvotes]
    ELSE hist

RetryOnSuccess ==
    IF hist.kind = "retrying" THEN [hist EXCEPT !.kind = "retried"] ELSE hist

RetryOnReturn == IF hist.kind = "retried" THEN NoHist ELSE hist

NextVoteRetry ==
    \/ \E r \in VoteRequests({sR1, sR3}) : CastVoteRejected("p1", r.body)
    \/ \E r \in VoteRequests({sR1, sR3}), g \in GeneratedIds :
          MayVote(MaxCount, r.body.reviewId)
          /\ CastVoteAccepted("p1", r.user, g, r.body,
                              RetryOnStart(r.user, r.body))
    \/ CvGetReviewMissing("p1")
    \/ CvGetReview("p1")
    \/ CvGetVote("p1", hist)
    \/ CvSetVote("p1")
    \/ CvDelVote("p1")
    \/ CvSetReview("p1", RetryOnSuccess)
    \/ Return("p1", RetryOnReturn)
    \/ StoreFails("p1", RetryOnFailure("p1"))

SpecVoteRetry == InitVoteRetry /\ [][NextVoteRetry]_vars

(***************************************************************************)
(* SpecVoteSer: POST /api/vote on a store that holds one review, no Redis  *)
(* call failing; calls of one user on one review are serialized, calls of  *)
(* different users interleave.                                             *)
(***************************************************************************)
InitVoteSer == Reviewed(<<sR1>>) /\ hist = NoHist

InFlightOn(p, reviewId) ==
    {q \in Procs \ {p} : ctx[q].op = "vote" /\ ctx[q].reviewId = reviewId}

SerializedPerKey(p, userId, reviewId) ==
    \A q \in InFlightOn(p, reviewId) : ctx[q].userId # userId

NextVoteSer ==
    \E p \in Procs :
        \/ \E r \in VoteRequests({sR1}) : CastVoteRejected(p, r.body)
        \/ \E r \in VoteRequests({sR1}), g \in GeneratedIds :
              MayVote(MaxCount, r.body.reviewId)
              /\ SerializedPerKey(p, r.user, r.body.reviewId)
              /\ CastVoteAccepted(p, r.user, g, r.body, hist)
        \/ CvGetReview(p)
        \/ CvGetVote(p, hist)
        \/ CvSetVote(p)
        \/ CvDelVote(p)
        \/ CvSetReview(p, hist)
        \/ Return(p, hist)

SpecVoteSer == InitVoteSer /\ [][NextVoteSer]_vars

(***************************************************************************)
(* Vocabulary of the properties.                                           *)
(***************************************************************************)
\* Every response has been sent: no request is between two Redis calls.
Quiescent == \A p \in Procs : pc[p] \in {"idle", "done"}

Succeeded(p) == pc[p] = "done" /\ resp[p].status = 200
Failed(p) == pc[p] = "done" /\ resp[p].status = 500

\* A (name, city) pair after trimming and case-folding.
NormPair(name, city) == <<ToLowerCase(Trim(name)), ToLowerCase(Trim(city))>>

Count(seq, x) == Cardinality({i \in DOMAIN seq : seq[i] = x})

\* The overall ratings of the reviews of a sequence that resolve in the store.
RECURSIVE ResolvedRatings(_)
ResolvedRatings(reviewIds) ==
    IF reviewIds = <<>> THEN <<>>
    ELSE (IF Has(reviewStore, Head(reviewIds))
          THEN <<reviewStore[Head(reviewIds)].rating>> ELSE <<>>)
         \o ResolvedRatings(Tail(reviewIds))

\* t tenths is the mean of the ratings rounded to one decimal: no tenth is
\* nearer to the mean, and of two equally near t is the larger.
IsRoundedMean(t, ratings) ==
    LET n == Len(ratings)
        total == SumSeq(ratings)
    IN  2 * n * t - n <= 2 * total /\ 2 * total < 2 * n * t + n

(***************************************************************************)
(* C1.  Sequential execution, no store failure: requests whose (name,      *)
(* city) are equal after trimming and case-folding derive one identifier;  *)
(* once every response is sent there is one Location record per            *)
(* normalized pair, the record of a review's pair holds the review's id in *)
(* its sequence, and the index lists that identifier exactly once.         *)
(***************************************************************************)
C1_OneLocationPerPair ==
    /\ \A p \in Procs :
          (ctx[p].op = "submit" /\ "body" \in DOMAIN ctx[p]) =>
             /\ \A r \in SeqRequests :
                   NormPair(r.body.locationName, r.body.city)
                      = NormPair(ctx[p].body.locationName, ctx[p].body.city)
                   => deriveLocationId(r.body.locationName, r.body.city)
                         = ctx[p].locationId
             /\ \A l \in DOMAIN locationStore :
                   NormPair(locationStore[l].name, locationStore[l].city)
                      = NormPair(ctx[p].body.locationName, ctx[p].body.city)
                   => l = ctx[p].locationId
    /\ Quiescent =>
          /\ \A l1, l2 \in DOMAIN locationStore :
                NormPair(locationStore[l1].name, locationStore[l1].city)
                   = NormPair(locationStore[l2].name, locationStore[l2].city)
                => l1 = l2
          /\ \A id \in DOMAIN reviewStore :
                \E l \in DOMAIN locationStore :
                   /\ NormPair(locationStore[l].name, locationStore[l].city)
                         = NormPair(reviewStore[id].locationName,
                                    reviewStore[id].city)
                   /\ id \in Range(locationStore[l].reviews)
                   /\ Count(ParsedList, l) = 1

\* Two reviews whose names differ in case and white space, in one record.
C1_Witness ==
    /\ Quiescent
    /\ \E l \in DOMAIN locationStore :
          \E a, b \in Range(locationStore[l].reviews) :
             /\ Has(reviewStore, a) /\ Has(reviewStore, b)
             /\ reviewStore[a].locationName = sJoe
             /\ reviewStore[b].city = sELY
             /\ Cardinality(DOMAIN locationStore) = 2

(***************************************************************************)
(* C2.  Every stored Location's averageRating is the mean of the overall   *)
(* ratings of the reviews of its sequence that resolve, rounded to one     *)
(* decimal, and 0 when none resolves.                                      *)
(***************************************************************************)
C2_AverageIsRoundedMean ==
    \A l \in DOMAIN locationStore :
        LET ratings == ResolvedRatings(locationStore[l].reviews)
        IN  IF ratings = <<>> THEN locationStore[l].averageRating = 0
            ELSE IsRoundedMean(locationStore[l].averageRating, ratings)

(***************************************************************************)
(* C3.  In every stored Location, whatever interleaved and whatever        *)
(* failed, totalReviews is the length of the review-id sequence.           *)
(***************************************************************************)
C3_TotalIsLength ==
    \A l \in DOMAIN locationStore :
        locationStore[l].totalReviews = Len(locationStore[l].reviews)

\* A record of two reviews, written while another request had failed.
C3_Witness ==
    \E l \in DOMAIN locationStore, p \in Procs :
        /\ locationStore[l].totalReviews = 2
        /\ Failed(p)

(***************************************************************************)
(* Vocabulary of the vote properties.                                      *)
(***************************************************************************)
\* The user ids a request can carry: the platform's, and the anonymous ones.
AllVoters == UserIds \cup {RequestUserId(sEmpty, g) : g \in GeneratedIds}

\* The users whose vote record for a review is of a type.
Voters(reviewId, voteType) ==
    {u \in AllVoters : RecordOf(voteStore, u, reviewId) = voteType}

CountersMatchRecords(reviewId) ==
    /\ reviewStore[reviewId].upvotes = Cardinality(Voters(reviewId, "up"))
    /\ reviewStore[reviewId].downvotes = Cardinality(Voters(reviewId, "down"))

\* The transition table of a vote: the counter of a type after a cast, from
\* the prior vote and the counter before; Remove takes a vote off a counter.
TableCounter(type, prior, cast, before, Remove(_)) ==
    IF prior = "none" THEN (IF cast = type THEN before + 1 ELSE before)
    ELSE IF prior = cast THEN (IF cast = type THEN Remove(before) ELSE before)
    ELSE IF cast = type THEN before + 1 ELSE Remove(before)

TableRecord(prior, cast) == IF prior = cast THEN "none" ELSE cast

RemoveOne(n) == n - 1
RemoveOneAboveZero(n) == IF n = 0 THEN 0 ELSE n - 1

\* A step of request p that writes the vote record or the review writes what
\* the table gives for the record and the counters p has read, and the
\* counts p returns are the ones it has persisted.
TableFollowed(p, Remove(_)) ==
    /\ (pc[p] \in {"cv_setVote", "cv_delVote"} /\ pc'[p] = "cv_setReview")
       => RecordOf(voteStore', ctx[p].userId, ctx[p].reviewId)
             = TableRecord(hist[p].existingVote, hist[p].voteType)
    /\ (pc[p] = "cv_setReview" /\ pc'[p] = "done" /\ resp'[p].status = 200)
       => /\ reviewStore'[ctx[p].reviewId].upvotes
                = TableCounter("up", hist[p].existingVote, hist[p].voteType,
                               hist[p].upvotes, Remove)
          /\ reviewStore'[ctx[p].reviewId].downvotes
                = TableCounter("down", hist[p].existingVote, hist[p].voteType,
                               hist[p].downvotes, Remove)
          /\ resp'[p].upvotes = reviewStore'[ctx[p].reviewId].upvotes
          /\ resp'[p].downvotes = reviewStore'[ctx[p].reviewId].downvotes

(***************************************************************************)
(* C4.  One castVote on an existing review follows the transition table    *)
(* for the six combinations of prior vote and cast type: no prior vote     *)
(* adds one to the cast counter and records the vote; the same type        *)
(* removes one from that counter and clears the record; the opposite type  *)
(* removes one from the old counter, adds one to the new one and           *)
(* overwrites the record; the returned counts are the persisted ones.      *)
(* As stated, removing always takes one off.                               *)
(***************************************************************************)
C4_TransitionTable ==
    [][\A p \in Procs : TableFollowed(p, RemoveOne)]_vars

(***************************************************************************)
(* C4, amended.  The same, where removing one from a counter that is       *)
(* already 0 leaves it at 0.                                               *)
(***************************************************************************)
C4_TransitionTableFloored ==
    [][\A p \in Procs : TableFollowed(p, RemoveOneAboveZero)]_vars

\* A call that found an up vote recorded and 0 upvotes has switched it to
\* down and answered.
C4_Witness ==
    \E p \in Procs :
        /\ Succeeded(p)
        /\ hist[p].kind = "read"
        /\ hist[p].existingVote = "up" /\ hist[p].voteType = "down"
        /\ hist[p].upvotes = 0
        /\ resp[p].upvotes = 0
        /\ resp[p].downvotes = hist[p].downvotes + 1

(***************************************************************************)
(* C5.  With one call at a time and no store failure, between calls each   *)
(* review's upvotes is the number of users whose vote record for it is up  *)
(* and its downvotes the number whose record is down, so the two counters  *)
(* sum to the number of users with a record for it.                        *)
(***************************************************************************)
C5_CountersCountVoters ==
    Quiescent =>
        \A id \in DOMAIN reviewStore :
            /\ CountersMatchRecords(id)
            /\ reviewStore[id].upvotes + reviewStore[id].downvotes
                  = Cardinality({u \in AllVoters :
                                    RecordOf(voteStore, u, id) # "none"})

\* Between calls: u1 up and an anonymous caller down on r1, and on r2 two
\* anonymous callers up and u1 without a vote.
C5_Witness ==
    /\ Quiescent
    /\ Voters(sR1, "up") = {sUser1}
    /\ Cardinality(Voters(sR1, "down")) = 1
    /\ reviewStore[sR2].upvotes = 2
    /\ RecordOf(voteStore, sUser1, sR2) = "none"

(***************************************************************************)
(* C6.  When a user with no vote on a review casts the same type twice in  *)
(* a row, no other vote on that review in between, the second call leaves  *)
(* upvotes, downvotes and the absence of the user's record as they were    *)
(* before the first.                                                       *)
(***************************************************************************)
C6_SameTypeTwiceRestores ==
    [][(pc["p1"] = "cv_setReview" /\ pc'["p1"] = "done"
        /\ Repeats("p1", hist.calls[ctx["p1"].reviewId]))
       => LET first == hist.calls[ctx["p1"].reviewId]
              after == reviewStore'[ctx["p1"].reviewId]
          IN  /\ after.upvotes = first.upvotes
              /\ after.downvotes = first.downvotes
              /\ RecordOf(voteStore', ctx["p1"].userId, ctx["p1"].reviewId)
                    = "none"]_vars

\* The last call on r2 repeated the one before it, while another user's up
\* vote on r2 stayed counted.
C6_Witness ==
    /\ Quiescent
    /\ hist.calls[sR2].repeats
    /\ reviewStore[sR2].upvotes = 1 /\ reviewStore[sR2].downvotes = 0
    /\ Cardinality(Voters(sR2, "up")) = 1

(***************************************************************************)
(* C7.  In every reachable state, with calls interleaved and with a vote   *)
(* record for a review whose counter is already 0, every stored review's   *)
(* upvotes and downvotes are at least 0.                                   *)
(***************************************************************************)
C7_CountersNotNegative ==
    \A id \in DOMAIN reviewStore :
        reviewStore[id].upvotes >= 0 /\ reviewStore[id].downvotes >= 0

\* A call that found an up vote recorded and 0 upvotes has cast up again and
\* answered.
C7_Witness ==
    \E p \in Procs :
        /\ Succeeded(p)
        /\ hist[p].kind = "read"
        /\ hist[p].existingVote = "up" /\ hist[p].voteType = "up"
        /\ hist[p].upvotes = 0
        /\ resp[p].upvotes = 0

(***************************************************************************)
(* C8.  When castVote fails after the vote record was written or cleared   *)
(* and before the review was written, retrying the same castVote until it  *)
(* succeeds leaves the vote record and the counters that one uninterrupted *)
(* castVote from the original state would have left.                       *)
(***************************************************************************)
C8_RetryAsUninterrupted ==
    hist.kind = "retried" =>
        /\ RecordOf(voteStore, hist.userId, hist.reviewId) = hist.vote
        /\ reviewStore[hist.reviewId].upvotes = hist.upvotes
        /\ reviewStore[hist.reviewId].downvotes = hist.downvotes

(***************************************************************************)
(* C9.  With the calls of one user on one review serialized and the calls  *)
(* of different users on a review interleaved, once all calls have         *)
(* completed each review's upvotes and downvotes are the numbers of up and *)
(* down vote records for it.                                               *)
(***************************************************************************)
C9_SerializedPerKeyCountersMatch ==
    Quiescent => \A id \in DOMAIN reviewStore : CountersMatchRecords(id)

\* The stored reviews whose name and city derive a location identifier.
ReviewsOf(locationId) ==
    {id \in DOMAIN reviewStore :
        deriveLocationId(reviewStore[id].locationName, reviewStore[id].city)
           = locationId}

(***************************************************************************)
(* C11.  A stored review that is missing from its Location's sequence is   *)
(* reconciled by the next successful submitReview for the same identifier: *)
(* the Location it writes links every stored review of the identifier,     *)
(* counts them in totalReviews and averages them.                          *)
(***************************************************************************)
C11_NextSubmitReconciles ==
    [][(pc["p1"] = "sr_setLocation" /\ pc'["p1"] = "done"
        /\ resp'["p1"].status = 200)
       => LET location == locationStore'[ctx["p1"].locationId]
              mine == ReviewsOf(ctx["p1"].locationId)
          IN  /\ mine \subseteq Range(location.reviews)
              /\ location.totalReviews = Cardinality(mine)
              /\ IsRoundedMean(location.averageRating,
                               ResolvedRatings(location.reviews))]_vars

\* The five rating axes of a request body or of a Review, in tenths.
Axes(r) == {r.rating, r.cleanliness, r.accessibility, r.supplies, r.privacy}

\* What validation is to reject: a name, city or comment that is empty after
\* trimming, or a rating axis outside 1..5.
MustBeRejected(body) ==
    \/ Trim(body.locationName) = sEmpty
    \/ Trim(body.city) = sEmpty
    \/ Trim(body.comment) = sEmpty
    \/ \E r \in Axes(body) : r < 10 \/ r > 50

(***************************************************************************)
(* C12.  submitReview answers with a validation error whenever the name,   *)
(* the city or the comment is empty after trimming (white space only       *)
(* included) or a rating axis is outside 1..5: no such request gets past   *)
(* validation.                                                             *)
(***************************************************************************)
C12_InvalidIsRejected ==
    \A p \in Procs :
        (ctx[p].op = "submit" /\ "body" \in DOMAIN ctx[p])
           => ~MustBeRejected(ctx[p].body)

(***************************************************************************)
(* C13.  A submitReview that validation rejects writes nothing: the index  *)
(* and every Location, Review and vote record are as before.               *)
(***************************************************************************)
C13_RejectedWritesNothing ==
    [][\A p \in Procs :
          (pc[p] = "idle" /\ pc'[p] = "done" /\ resp'[p].status = 400)
          => UNCHANGED stores]_vars

\* A request was rejected while a Location with a review is stored.
C13_Witness ==
    \E p \in Procs :
        /\ pc[p] = "done" /\ resp[p].status = 400
        /\ \E l \in DOMAIN locationStore : locationStore[l].totalReviews = 1
        /\ ParsedList # <<>>

(***************************************************************************)
(* C14.  castVote for a review identifier that has no Review record        *)
(* answers NotFound and writes nothing: the call, from its start to its    *)
(* answer, creates or deletes no vote record and creates no Review.        *)
(***************************************************************************)
C14_MissingReviewNotFound ==
    [][/\ (pc["p1"] = "idle" /\ pc'["p1"] = "cv_getReview") => UNCHANGED stores
       /\ (pc["p1"] = "cv_getReview"
           /\ ~Has(reviewStore, ctx["p1"].reviewId))
          => /\ pc'["p1"] = "done"
             /\ resp'["p1"].status = 404
             /\ UNCHANGED stores]_vars

\* A vote on r3 was answered 404 while votes on other reviews are stored.
C14_Witness ==
    /\ pc["p1"] = "done" /\ resp["p1"].status = 404
    /\ ~Has(reviewStore, sR3)
    /\ Voters(sR1, "up") # {}

(***************************************************************************)
(* C16.  In every reachable state, with submissions interleaving and       *)
(* failed submissions sent again, the location index holds each location   *)
(* identifier at most once.                                                *)
(***************************************************************************)
C16_IndexHasNoDuplicates ==
    \A id \in Range(ParsedList) : Count(ParsedList, id) = 1

\* Both locations are indexed, one of them by a submission that failed
\* after the index write and left no Location record.
C16_Witness ==
    /\ Range(ParsedList) = {JoeId, MoeId}
    /\ \E id \in Range(ParsedList) : ~Has(locationStore, id)
    /\ \E p \in Procs : pc[p] = "sr_setList"

(***************************************************************************)
(* C17.  The location index grows only by prepension: an identifier once   *)
(* in the index stays in it, a write of the index puts one new identifier  *)
(* in front of what the index held, and a submission for an identifier     *)
(* whose Location record exists does not write the index.                  *)
(***************************************************************************)
C17_IndexGrowsByPrepension ==
    [][/\ Range(ParsedList) \subseteq Range(ParsedList')
       /\ listStore' # listStore =>
             \E id \in {JoeId, MoeId} :
                /\ id \notin Range(ParsedList)
                /\ ParsedList' = <<id>> \o ParsedList
       /\ \A p \in Procs :
             (pc[p] = "sr_setList" /\ pc'[p] = "sr_setReview"
              /\ Has(locationStore, ctx[p].locationId))
                => listStore' = listStore]_vars

(***************************************************************************)
(* C18.  listLocations returns the locations in ascending order of         *)
(* averageRating and, within each location, the reviews in descending      *)
(* order of creation time.                                                 *)
(***************************************************************************)
Listed(p) == pc[p] = "done" /\ resp[p].status = 200 /\ "locations" \in DOMAIN resp[p]

C18_ListIsSorted ==
    \A p \in Procs : Listed(p) =>
        LET locations == resp[p].locations
        IN  /\ \A a, b \in DOMAIN locations :
                  a < b => locations[a].averageRating <= locations[b].averageRating
            /\ \A l \in Range(locations) : \A a, b \in DOMAIN l.reviews :
                  a < b => l.reviews[a].createdAt >= l.reviews[b].createdAt

\* Two locations are returned, in the opposite order of the index.
C18_Witness ==
    /\ Listed("p1")
    /\ Len(resp["p1"].locations) = 2
    /\ resp["p1"].locations[1].averageRating < resp["p1"].locations[2].averageRating
    /\ ParsedList = <<resp["p1"].locations[2].id, resp["p1"].locations[1].id>>

(***************************************************************************)
(* C19.  listLocations succeeds in the presence of holes: an index entry   *)
(* with no Location record is left out of the result, a review identifier  *)
(* with no Review record is left out of its location's reviews, and every  *)
(* other location and review is returned.                                  *)
(***************************************************************************)
\* The identifiers of the index that have a Location record.
Resolvable == SelectSeq(ParsedList, LAMBDA id : Has(locationStore, id))

\* The locations are those of the index that have a record, each with the
\* reviews of its record that have one.
ReturnsWhatResolves(locations) ==
    /\ Len(locations) = Len(Resolvable)
    /\ {l.id : l \in Range(locations)} = Range(Resolvable)
    /\ \A l \in Range(locations) :
          LET stored == locationStore[l.id]
              ids == [k \in DOMAIN l.reviews |-> l.reviews[k].id]
          IN  /\ [l EXCEPT !.reviews = stored.reviews] = stored
              /\ \A r \in Range(l.reviews) : r = reviewStore[r.id]
              /\ \A id \in GeneratedIds :
                    Count(ids, id) = IF Has(reviewStore, id)
                                     THEN Count(stored.reviews, id) ELSE 0

C19_HolesAreSkipped ==
    [][(pc["p1"] \in {"ll_getList", "ll_getLocation", "ll_getReview"}
        /\ pc'["p1"] = "done")
          => /\ resp'["p1"].status = 200
             /\ ReturnsWhatResolves(resp'["p1"].locations)]_vars

\* The index names a location with no record, and the location returned has
\* lost one of its two reviews.
C19_Witness ==
    /\ Listed("p1")
    /\ \E id \in Range(ParsedList) : ~Has(locationStore, id)
    /\ \E l \in Range(resp["p1"].locations) :
          /\ Len(l.reviews) = 1
          /\ \E id \in Range(locationStore[l.id].reviews) : ~Has(reviewStore, id)

(***************************************************************************)
(* C20.  castVote never writes a Location record or the location index:    *)
(* every Location's averageRating, totalReviews and review sequence, and   *)
(* the index, are the same after any step of a castVote as before it.      *)
(***************************************************************************)
C20_VoteLeavesLocations ==
    [][locationStore' = locationStore /\ listStore' = listStore]_vars

\* A vote on r1 has been counted; the location of r1 is as it was submitted.
C20_Witness ==
    /\ \E p \in Procs : Succeeded(p) /\ resp[p].upvotes = 1
    /\ reviewStore[sR1].upvotes = 1
    /\ locationStore[JoeId] = JoeLocation(<<sR1>>)

(***************************************************************************)
(* C15.  Every stored Review has each of its five rating axes equal to an  *)
(* integer in 1..5, whatever request submitReview accepts.                 *)
(***************************************************************************)
C15_AxesAreIntegers1To5 ==
    \A id \in DOMAIN reviewStore :
        Axes(reviewStore[id]) \subseteq {10, 20, 30, 40, 50}

(***************************************************************************)
(* C10.  The last location write wins: a submitReview that succeeds stores *)
(* the sequence it holds in memory, its new id in front of the sequence it *)
(* read, whatever was stored in between; so two interleaved calls for one  *)
(* identifier can both succeed and leave a record with one of their ids.   *)
(***************************************************************************)
C10_LastLocationWriteWins ==
    [][\A p \in Procs :
          (pc[p] = "sr_setLocation" /\ pc'[p] = "done" /\ resp'[p].status = 200)
          => /\ Has(locationStore', ctx[p].locationId)
             /\ locationStore'[ctx[p].locationId].reviews
                   = ctx[p].location.reviews
             /\ Head(ctx[p].location.reviews) = resp'[p].review]_vars

\* Both calls answered 200 for distinct reviews of one location, and the
\* stored record links only one of them.
C10_Witness ==
    \E p, q \in Procs, l \in DOMAIN locationStore :
        /\ p # q /\ Succeeded(p) /\ Succeeded(q)
        /\ resp[p].review # resp[q].review
        /\ deriveLocationId(reviewStore[resp[p].review].locationName,
                            reviewStore[resp[p].review].city) = l
        /\ deriveLocationId(reviewStore[resp[q].review].locationName,
                            reviewStore[resp[q].review].city) = l
        /\ resp[p].review \in Range(locationStore[l].reviews)
        /\ resp[q].review \notin Range(locationStore[l].reviews)

(***************************************************************************)
(* C21.  A Review record, once created, is never deleted, and every later  *)
(* step leaves all of its fields but upvotes and downvotes as they were.   *)
(***************************************************************************)
C21_ReviewsKeepTheirContent ==
    [][\A id \in DOMAIN reviewStore :
          /\ Has(reviewStore', id)
          /\ [reviewStore'[id] EXCEPT !.upvotes = 0, !.downvotes = 0]
                = [reviewStore[id] EXCEPT !.upvotes = 0, !.downvotes = 0]]_vars

(***************************************************************************)
(* C22.  Creating a new location is not atomic: a store failure partway    *)
(* through a submitReview for a new location, after the call has written   *)
(* to the store, leaves a persisted Location record whose identifier is    *)
(* absent from the index.                                                  *)
(***************************************************************************)
C22_FailureLeavesUnindexedLocation ==
    [][\A p \in Procs :
          (/\ pc[p] \in {"sr_setReview", "sr_setLocation"}
           /\ ~Has(locationStore, ctx[p].locationId)
           /\ pc'[p] = "done" /\ resp'[p].status = 500)
          => /\ Has(locationStore', ctx[p].locationId)
             /\ ctx[p].locationId \notin Range(ParsedList')]_vars

(***************************************************************************)
(* C22, as the code has it.  The Location record is written by the last    *)
(* store call of a submitReview, which then answers 200: a call that ends  *)
(* in a store failure has written no Location record.                      *)
(***************************************************************************)
C22_FailedSubmitWritesNoLocation ==
    [][/\ locationStore' # locationStore
          => \E p \in Procs : /\ pc[p] = "sr_setLocation"
                              /\ pc'[p] = "done" /\ resp'[p].status = 200
       /\ \A p \in Procs :
             (ctx[p].op = "submit" /\ pc[p] # "done"
              /\ pc'[p] = "done" /\ resp'[p].status = 500)
                => locationStore' = locationStore]_vars

\* A submitReview for a new location has failed after its index write: the
\* identifier is in the index and there is no Location record for it.
C22_Witness ==
    \E p \in Procs, id \in Range(ParsedList) :
        /\ Failed(p)
        /\ ~Has(locationStore, id)
        /\ \E r \in DOMAIN reviewStore :
              deriveLocationId(reviewStore[r].locationName, reviewStore[r].city) = id

(***************************************************************************)
(* C23.  Once a Location record exists whose identifier is absent from the *)
(* index, no call made later adds the identifier to the index, and no      *)
(* listLocations made later returns the location.  A call made later holds *)
(* no copy of the index read while the identifier was in it, and has not   *)
(* looked the Location up while it had no record.                          *)
(***************************************************************************)
Unindexed(locationId) ==
    Has(locationStore, locationId) /\ locationId \notin Range(ParsedList)

\* No request in progress read the index or the record of the location
\* before the location came to be as it is.
ReadByNone(locationId) ==
    \A p \in Procs :
        /\ pc[p] = "sr_getList" => ctx[p].locationId # locationId
        /\ pc[p] \in {"sr_setList", "ll_getLocation", "ll_getReview"}
              => locationId \notin Range(ctx[p].locationIds)

C23_UnindexedStaysUnlisted ==
    [][\A locationId \in {JoeId, MoeId} :
          (Unindexed(locationId) /\ ReadByNone(locationId))
          => /\ Unindexed(locationId)'
             /\ ReadByNone(locationId)'
             /\ \A p \in Procs :
                   (pc[p] # "done" /\ Listed(p)')
                   => \A l \in Range(resp'[p].locations) : l.id # locationId]_vars

\* A location with a record and no index entry has taken a second review,
\* and a listing of the index, which is not empty, has been answered.
C23_Witness ==
    \E locationId \in {JoeId, MoeId} :
        /\ Unindexed(locationId) /\ ReadByNone(locationId)
        /\ Len(locationStore[locationId].reviews) = 2
        /\ Listed("p1")
        /\ ParsedList # <<>>

(***************************************************************************)
(* C24.  When the stored index does not parse, listLocations answers       *)
(* success with no locations, and submitReview for a new location goes on  *)
(* as if the index were empty and writes an index that holds only the new  *)
(* identifier; neither answers with an error.                              *)
(***************************************************************************)
C24_MalformedIndexReadsAsEmpty ==
    [][/\ listStore.kind = "malformed" =>
            /\ pc["p1"] = "ll_getList"
                  => /\ pc'["p1"] = "done"
                     /\ resp'["p1"] = [status |-> 200, locations |-> <<>>]
            /\ pc["p1"] = "sr_getList"
                  => /\ pc'["p1"] = "sr_setList"
                     /\ ctx'["p1"].locationIds = <<ctx["p1"].locationId>>
            /\ pc["p1"] = "sr_setList"
                  => listStore' = [kind |-> "json", ids |-> <<ctx["p1"].locationId>>]
       /\ resp'["p1"].status # 500]_vars

\* A submission has succeeded after the index stopped parsing: the index
\* holds its identifier only, and the location listed before is not in it.
C24_Witness ==
    /\ Succeeded("p1") /\ "review" \in DOMAIN resp["p1"]
    /\ \E id \in DOMAIN locationStore :
          /\ ParsedList = <<id>>
          /\ resp["p1"].review \in Range(locationStore[id].reviews)
    /\ \E id \in DOMAIN locationStore : id \notin Range(ParsedList)

(***************************************************************************)
(* C25.  submitReview saves the Review before the Location that links it:  *)
(* in every reachable state, with requests interleaving and after a store  *)
(* failure at any step, every review identifier in a stored Location's     *)
(* sequence has a stored Review.                                           *)
(***************************************************************************)
C25_LinkedReviewsResolve ==
    \A l \in DOMAIN locationStore :
        \A reviewId \in Range(locationStore[l].reviews) : Has(reviewStore, reviewId)

\* A submission has failed after saving its review, which no Location
\* links, while the stored Location links a review of another submission.
C25_Witness ==
    /\ \E p \in Procs : Failed(p)
    /\ \E l \in DOMAIN locationStore :
          /\ locationStore[l].reviews # <<>>
          /\ \E reviewId \in DOMAIN reviewStore :
                reviewId \notin Range(locationStore[l].reviews)

(***************************************************************************)
(* C26.  Every submitReview stores its Review under an identifier that no  *)
(* stored Review uses: it never overwrites a stored Review, and no         *)
(* identifier occurs twice in a Location's sequence.                       *)
(***************************************************************************)
C26_ReviewIdsAreFresh ==
    [][/\ \A p \in Procs :
             (pc[p] = "sr_setReview" /\ pc'[p] = "sr_getReview")
                => ~Has(reviewStore, ctx'[p].review.id)
       /\ \A l \in DOMAIN locationStore' :
             \A reviewId \in Range(locationStore'[l].reviews) :
                Count(locationStore'[l].reviews, reviewId) = 1]_vars

(***************************************************************************)
(* C27.  Two (name, city) pairs that differ after trimming and             *)
(* case-folding never derive the same location identifier: a submission    *)
(* that finds a Location record under its identifier, and adds its review  *)
(* to it, is for the normalized pair the Location was created for.         *)
(***************************************************************************)
C27_DistinctPairsDistinctLocations ==
    \A p \in Procs :
        (pc[p] = "sr_getLocation" /\ Has(locationStore, ctx[p].locationId))
        => NormPair(ctx[p].body.locationName, ctx[p].body.city)
              = NormPair(locationStore[ctx[p].locationId].name,
                         locationStore[ctx[p].locationId].city)

(***************************************************************************)
(* C28.  After a successful submitReview the new review's identifier is    *)
(* the first element of the stored Location's sequence and the rest is the *)
(* sequence the call read; with one request at a time that is the sequence *)
(* stored before the call, so the sequence lists the location's reviews    *)
(* most recent first.                                                      *)
(***************************************************************************)
C28_NewReviewGoesInFront ==
    [][(pc["p1"] = "sr_setLocation" /\ pc'["p1"] = "done"
        /\ resp'["p1"].status = 200)
          => LET locationId == ctx["p1"].locationId
                 before == IF Has(locationStore, locationId)
                           THEN locationStore[locationId].reviews ELSE <<>>
             IN  locationStore'[locationId].reviews
                    = <<resp'["p1"].review>> \o before]_vars

\* The second submission for a location has succeeded: its review is in
\* front of the first one.
C28_Witness ==
    /\ Succeeded("p1")
    /\ \E l \in DOMAIN locationStore :
          /\ Len(locationStore[l].reviews) = 2
          /\ locationStore[l].reviews[1] = resp["p1"].review
          /\ locationStore[l].reviews[2] # resp["p1"].review
          /\ reviewStore[locationStore[l].reviews[1]].createdAt
                > reviewStore[locationStore[l].reviews[2]].createdAt

(***************************************************************************)
(* C29.  Every location listLocations returns, also when the call          *)
(* interleaves with submitReview calls, has totalReviews equal to the      *)
(* number of reviews returned with it and averageRating equal to the       *)
(* one-decimal rounded mean of their overall ratings.                      *)
(***************************************************************************)
C29_ListedAggregatesMatch ==
    \A p \in Procs : Listed(p) =>
        \A l \in Range(resp[p].locations) :
            /\ l.totalReviews = Len(l.reviews)
            /\ IsRoundedMean(l.averageRating,
                             [k \in DOMAIN l.reviews |-> l.reviews[k].rating])

(***************************************************************************)
(* C30.  A vote request without a platform user id is given a freshly      *)
(* generated anonymous user id, so every castVote(up) of such a caller     *)
(* adds one to upvotes: a second one on the same review does not take the  *)
(* first one back.                                                         *)
(***************************************************************************)
IsAnonymous(userId) ==
    /\ Len(userId) >= Len(sAnonymous)
    /\ SubSeq(userId, 1, Len(sAnonymous)) = sAnonymous

C30_AnonymousUpVotesAdd ==
    [][(/\ pc["p1"] = "cv_setReview" /\ pc'["p1"] = "done"
        /\ IsAnonymous(ctx["p1"].userId)
        /\ ctx["p1"].voteType = "up")
          => reviewStore'[ctx["p1"].reviewId].upvotes
                = reviewStore[ctx["p1"].reviewId].upvotes + 1]_vars

(***************************************************************************)
(* C31.  A submitReview for an identifier whose Location record exists     *)
(* leaves the id, name, address and city of the record as they were,       *)
(* whatever casing, surrounding white space or address the request has;    *)
(* only the review sequence, totalReviews and averageRating change.        *)
(***************************************************************************)
C31_ExistingLocationKeepsIdentity ==
    [][(/\ pc["p1"] = "sr_setLocation" /\ pc'["p1"] = "done"
        /\ resp'["p1"].status = 200
        /\ Has(locationStore, ctx["p1"].locationId))
          => LET before == locationStore[ctx["p1"].locationId]
                 after == locationStore'[ctx["p1"].locationId]
             IN  /\ after.id = before.id /\ after.name = before.name
                 /\ after.address = before.address /\ after.city = before.city
                 /\ [after EXCEPT !.reviews = before.reviews,
                                  !.totalReviews = before.totalReviews,
                                  !.averageRating = before.averageRating] = before
                 /\ after.reviews # before.reviews]_vars

\* The second review of a location came with another casing, white space
\* and address than the Location has, and changed its average.
C31_Witness ==
    /\ Succeeded("p1")
    /\ \E l \in DOMAIN locationStore :
          LET location == locationStore[l]
              review == reviewStore[resp["p1"].review]
          IN  /\ Len(location.reviews) = 2
              /\ Head(location.reviews) = review.id
              /\ location.reviews[2] # review.id
              /\ deriveLocationId(review.locationName, review.city) = l
              /\ review.locationName # location.name
              /\ review.city # location.city
              /\ review.address # location.address
              /\ location.averageRating = 40

(***************************************************************************)
(* C32.  In the client, after a successful vote made from the details      *)
(* view, handleVote reloads the locations and sets the selected location   *)
(* to the entry of the reloaded list that has the same id, so the details  *)
(* view shows the vote counts that result from the vote.                   *)
(***************************************************************************)
C32_DetailsShowTheVote ==
    [][(hist.call = "reload" /\ hist'.call = "idle")
          => /\ hist'.selectedLocation
                   = Find(hist'.locations, hist.selectedLocation.id)
             /\ \A review \in Range(hist'.selectedLocation.reviews) :
                   /\ review.upvotes = reviewStore[review.id].upvotes
                   /\ review.downvotes = reviewStore[review.id].downvotes]_vars

=============================================================================
